---- MODULE Spec2Model ----
(***************************************************************************)
(* searchgrid: grid annotations on estimators, the grid merger             *)
(* (_update_grid), the recursive grid builder (_build_param_grid,          *)
(* build_param_grid), the convenience constructor (make_grid_search) and   *)
(* the step namer (_name_steps, make_pipeline / make_union /               *)
(* make_column_transformer).                                               *)
(*                                                                         *)
(* Python strings are sequences of one-character strings, so that          *)
(* prefix + k is \o and '__' in name is a search for two underscores.      *)
(* A dict is a sequence of [key, val] entries with pairwise distinct keys, *)
(* in insertion order; dict equality ignores the order, iteration follows  *)
(* it.  An optional value (None or a value) is [some, v].                  *)
(***************************************************************************)
EXTENDS Integers, Sequences, FiniteSets, TLC

VARIABLES heap, args, ret

vars == <<heap, args, ret>>

----------------------------------------------------------------------------
(* Bounds of the model.                                                    *)

\* number of estimator objects that are constructed
MaxObjs == 3
\* length of a candidate list of an annotation
MaxCands == 2
\* total number of candidates over all annotations of the heap
MaxCells == 3
\* number of Conjunctions of a list-form annotation / of a merger operand
MaxConj == 2
\* number of slots handed to the step namer
MaxSlots == 3
\* number of alternatives of one slot
MaxAlts == 2
\* total number of candidates over all slots
MaxNames == 5

----------------------------------------------------------------------------
(* Python values.                                                          *)

NoneV == [k |-> "none", n |-> 0]
IntV(i) == [k |-> "int", n |-> i]
\* a reference to the estimator heap[i]
ObjV(i) == [k |-> "obj", n |-> i]

Nothing == [some |-> FALSE, v |-> <<>>]
Some(x) == [some |-> TRUE, v |-> x]

SeqsUpTo(S, n) == UNION {[1..m -> S] : m \in 0..n}
NonEmptySeqsUpTo(S, n) == UNION {[1..m -> S] : m \in 1..n}

NoCall == [op |-> "none"]

Str_x == <<"x">>
Str_k == <<"k">>
Dunder == <<"_", "_">>

RECURSIVE Concat(_)
\* [a, b, ...] flattened: the list built by successive extend() calls
Concat(ss) == IF ss = <<>> THEN <<>> ELSE Head(ss) \o Concat(Tail(ss))

----------------------------------------------------------------------------
(* dict                                                                    *)

Keys(d) == {d[i].key : i \in DOMAIN d}
DictHas(d, k) == \E i \in DOMAIN d : d[i].key = k
DictGet(d, k) == d[CHOOSE i \in DOMAIN d : d[i].key = k].val

\* d[k] = v: an existing key keeps its position, a new key goes last
DictSet(d, k, v) ==
    IF DictHas(d, k)
    THEN [i \in DOMAIN d |-> IF d[i].key = k THEN [key |-> k, val |-> v] ELSE d[i]]
    ELSE Append(d, [key |-> k, val |-> v])

RECURSIVE DictUpdate(_, _)
\* d1.update(d2)
DictUpdate(d1, d2) ==
    IF d2 = <<>> THEN d1
    ELSE DictUpdate(DictSet(d1, Head(d2).key, Head(d2).val), Tail(d2))

\* d1 == d2 on dicts
DictEq(d1, d2) ==
    /\ Keys(d1) = Keys(d2)
    /\ \A k \in Keys(d1) : DictGet(d1, k) = DictGet(d2, k)

\* l1 == l2 on lists of dicts
ListEq(l1, l2) ==
    /\ Len(l1) = Len(l2)
    /\ \A i \in DOMAIN l1 : DictEq(l1[i], l2[i])

\* the keys of d left as they are
KeepKeys(prefix, d) == d

\* {prefix + k: v for k, v in d.items()}
PrefixKeys(prefix, d) ==
    [i \in DOMAIN d |-> [key |-> prefix \o d[i].key, val |-> d[i].val]]

----------------------------------------------------------------------------
(* _update_grid, run on a memory of dict objects: a list is a sequence of  *)
(* addresses into mem, so that a write through an alias is visible.        *)

\* the dict written by the loop body, aliasing d1 instead of copying it
DictCopyAlias(mem, a) == [mem |-> mem, addr |-> a]

\* out_d = d1.copy(): a new object with the entries of mem[a]
DictCopy(mem, a) == [mem |-> Append(mem, mem[a]), addr |-> Len(mem) + 1]

\* itertools.product(dest, src), as pairs of positions
Product(nd, ns) == [p \in 1..(nd * ns) |-> <<((p - 1) \div ns) + 1, ((p - 1) % ns) + 1>>]

RECURSIVE UpdateLoop(_, _, _, _, _)
\* for d1, d2 in product(dest, src): out_d = d1.copy(); out_d.update(d2); out.append(out_d)
UpdateLoop(mem, dest, src, pairs, out) ==
    IF pairs = <<>> THEN [mem |-> mem, out |-> out]
    ELSE LET d1 == dest[Head(pairs)[1]]
             d2 == src[Head(pairs)[2]]
             c == DictCopy(mem, d1)
             m2 == [c.mem EXCEPT ![c.addr] = DictUpdate(c.mem[c.addr], c.mem[d2])]
         IN UpdateLoop(m2, dest, src, Tail(pairs), Append(out, c.addr))

\* _update_grid(dest, src, prefix) on memory mem; dest and src.v are lists
\* of addresses, prefix is an optional string.  Returns the memory after
\* the call and the returned list.
UpdateGridRun(mem, dest, src, prefix) ==
    IF ~src.some THEN [mem |-> mem, out |-> dest]
    ELSE LET renamed == prefix.some /\ prefix.v # <<>>
             fresh == [j \in DOMAIN src.v |-> PrefixKeys(prefix.v, mem[src.v[j]])]
             mem1 == IF renamed THEN mem \o fresh ELSE mem
             src1 == IF renamed THEN [j \in DOMAIN src.v |-> Len(mem) + j] ELSE src.v
         IN UpdateLoop(mem1, dest, src1, Product(Len(dest), Len(src1)), <<>>)

\* the value of _update_grid(dest, src, prefix) for lists of dicts given by value
_update_grid(dest, src, prefix) ==
    LET nd == Len(dest)
        mem == dest \o (IF src.some THEN src.v ELSE <<>>)
        srcA == IF src.some THEN Some([j \in DOMAIN src.v |-> nd + j]) ELSE Nothing
        r == UpdateGridRun(mem, [i \in 1..nd |-> i], srcA, prefix)
    IN [p \in DOMAIN r.out |-> r.mem[r.out[p]]]

----------------------------------------------------------------------------
(* Estimators.  heap[i] is an estimator object: its own parameters, in the *)
(* order get_params lists them, and its _param_grid attribute.             *)

\* an object with fit and without get_params
FitOnlyV == [k |-> "fitonly", n |-> 0]
\* an object with get_params (no parameters) and without fit
ParamsOnlyV == [k |-> "paramsonly", n |-> 0]

Absent == [form |-> "absent", cs |-> <<>>]
MappingGrid(d) == [form |-> "mapping", cs |-> <<d>>]
ListGrid(cs) == [form |-> "list", cs |-> cs]

\* hasattr(v, 'get_params')
HasGetParams(v) == v.k \in {"obj", "paramsonly"}
\* hasattr(v, 'fit')
HasFit(v) == v.k \in {"obj", "fitonly"}

\* '__' in name
HasDunder(name) == \E i \in 1..(Len(name) - 1) : name[i] = "_" /\ name[i + 1] = "_"

RECURSIVE GetParams(_, _), GetParamsFrom(_, _)
\* value.get_params(): every own parameter, preceded by the parameters of a
\* value that has get_params itself under the names key + '__' + k
GetParamsFrom(h, own) ==
    IF own = <<>> THEN <<>>
    ELSE LET e == Head(own)
             deep == IF HasGetParams(e.val)
                     THEN PrefixKeys(e.key \o Dunder, GetParams(h, e.val))
                     ELSE <<>>
         IN deep \o <<e>> \o GetParamsFrom(h, Tail(own))

GetParams(h, v) == IF v.k = "obj" THEN GetParamsFrom(h, h[v.n].params) ELSE <<>>

\* grid = getattr(estimator, '_param_grid', {}); a Mapping is wrapped in a list
InitialGrid(h, v) ==
    IF v.k = "obj" /\ h[v.n].grid.form # "absent" THEN h[v.n].grid.cs ELSE << <<>> >>

RECURSIVE _build_param_grid(_, _)

\* for sub_grid in grid: a Conjunction naming param_name is kept, any other
\* is merged with the grid of the parameter's current value
FoldParam(h, grid, param_name, value_grid) ==
    Concat([g \in DOMAIN grid |->
              IF DictHas(grid[g], param_name)
              THEN <<grid[g]>>
              ELSE _update_grid(<<grid[g]>>, value_grid, Some(param_name \o Dunder))])

RECURSIVE Pass1(_, _, _)
\* for param_name, value in estimator.get_params().items(): ...
Pass1(h, params, grid) ==
    IF params = <<>> THEN grid
    ELSE LET p == Head(params)
         IN IF ~HasDunder(p.key) /\ HasGetParams(p.val)
            THEN Pass1(h, Tail(params),
                       FoldParam(h, grid, p.key, _build_param_grid(h, p.val)))
            ELSE Pass1(h, Tail(params), grid)

RECURSIVE SplitValues(_, _, _, _, _)
\* for v in values: a value with a grid of its own adds its merged sub-grid
\* to to_update, any other value goes to no_sub_grid
SplitValues(h, param_name, values, to_update, no_sub_grid) ==
    IF values = <<>> THEN [to_update |-> to_update, no_sub_grid |-> no_sub_grid]
    ELSE LET v == Head(values)
             sub_grid == IF HasGetParams(v) THEN _build_param_grid(h, v) ELSE Nothing
         IN IF HasGetParams(v) /\ sub_grid.some
            THEN SplitValues(h, param_name, Tail(values),
                             to_update \o _update_grid(
                                 << <<[key |-> param_name, val |-> <<v>>]>> >>,
                                 sub_grid, Some(param_name \o Dunder)),
                             no_sub_grid)
            ELSE SplitValues(h, param_name, Tail(values), to_update,
                             Append(no_sub_grid, v))

\* to_update once the loop over values is over
ToUpdate(h, param_name, values) ==
    LET s == SplitValues(h, param_name, values, <<>>, <<>>)
    IN IF s.no_sub_grid # <<>>
       THEN Append(s.to_update, <<[key |-> param_name, val |-> s.no_sub_grid]>>)
       ELSE s.to_update

RECURSIVE ExpandItems(_, _, _)
\* for param_name, values in out_d.items(): part = _update_grid(part, to_update)
ExpandItems(h, items, part) ==
    IF items = <<>> THEN part
    ELSE ExpandItems(h, Tail(items),
                     _update_grid(part,
                                  Some(ToUpdate(h, Head(items).key, Head(items).val)),
                                  Nothing))

\* for out_d in grid: part = [out_d]; ...; out.extend(part)
Pass2(h, grid) ==
    Concat([g \in DOMAIN grid |-> ExpandItems(h, grid[g], <<grid[g]>>)])

\* out, as it stands before the test out == [{}]
BuildOut(h, v) == Pass2(h, Pass1(h, GetParams(h, v), InitialGrid(h, v)))

\* out == [{}]
IsNoGrid(out) == ListEq(out, << <<>> >>)

_build_param_grid(h, v) ==
    LET out == BuildOut(h, v)
    IN IF IsNoGrid(out) THEN Nothing ELSE Some(out)

\* the flattening without the single-Conjunction case
FlattenKeepList(out) ==
    IF ~out.some THEN MappingGrid(<<>>) ELSE ListGrid(out.v)

\* build_param_grid's result from _build_param_grid's: {} for None, the
\* Conjunction itself for a list of one, the list otherwise
Flatten(out) ==
    IF ~out.some THEN MappingGrid(<<>>)
    ELSE IF Len(out.v) = 1 THEN MappingGrid(out.v[1])
    ELSE ListGrid(out.v)

build_param_grid(h, v) == Flatten(_build_param_grid(h, v))

----------------------------------------------------------------------------
(* make_grid_search                                                        *)

Str_root == <<"r", "o", "o", "t">>
Str_steps == <<"s", "t", "e", "p", "s">>
Str_memory == <<"m", "e", "m", "o", "r", "y">>
\* a list held as a parameter value (Pipeline.steps)
ListV == [k |-> "list", n |-> 0]

ScalarRoot(v) == [islist |-> FALSE, v |-> v, items |-> <<>>]
ListRoot(items) == [islist |-> TRUE, v |-> NoneV, items |-> items]

\* set_grid(_Pipeline([('root', estimator[0])]), root=estimator)
RootPipeline(items) ==
    [params |-> <<[key |-> Str_memory, val |-> NoneV],
                  [key |-> Str_steps, val |-> ListV],
                  [key |-> Str_root, val |-> items[1]]>>,
     grid |-> MappingGrid(<<[key |-> Str_root, val |-> items]>>)]

\* _check_estimator: the heap after the call, the estimator returned, and
\* the exception raised ("none": it returned)
_check_estimator(h, root) ==
    IF root.islist
    THEN IF root.items = <<>>
         THEN [err |-> "IndexError", heap |-> h, estimator |-> NoneV]
         ELSE [err |-> "none", heap |-> Append(h, RootPipeline(root.items)),
               estimator |-> ObjV(Len(h) + 1)]
    ELSE IF ~HasFit(root.v)
    THEN [err |-> "ValueError", heap |-> h, estimator |-> NoneV]
    ELSE [err |-> "none", heap |-> h, estimator |-> root.v]

\* make_grid_search: trace lists the steps that were entered, in order
make_grid_search(h, root) ==
    LET c == _check_estimator(h, root)
    IN IF c.err # "none"
       THEN [err |-> c.err, heap |-> c.heap,
             trace |-> <<"_check_estimator">>,
             estimator |-> NoneV, param_grid |-> MappingGrid(<<>>)]
       ELSE IF ~HasGetParams(c.estimator)
       THEN [err |-> "AttributeError", heap |-> c.heap,
             trace |-> <<"_check_estimator", "build_param_grid">>,
             estimator |-> c.estimator, param_grid |-> MappingGrid(<<>>)]
       ELSE [err |-> "none", heap |-> c.heap,
             trace |-> <<"_check_estimator", "build_param_grid", "GridSearchCV">>,
             estimator |-> c.estimator,
             param_grid |-> build_param_grid(c.heap, c.estimator)]

----------------------------------------------------------------------------
(* The program: estimators are constructed and annotated, then a grid is   *)
(* built or a grid search is made.                                         *)

ParamNames == {Str_x, Str_k}

\* the values a candidate list of heap[e] may hold: plain values and the
\* estimators constructed before e (so that the parameter graph is acyclic)
Values(e) == {IntV(i) : i \in 1..MaxCands} \cup {ObjV(j) : j \in 1..(e - 1)}

\* plain values are numbered in the order of their first appearance
Canonical(l) ==
    \A p \in DOMAIN l :
        l[p].k = "int" =>
            l[p].n <= 1 + Cardinality({l[q].n : q \in {r \in 1..(p - 1) : l[r].k = "int"}})

CandLists(e) == {l \in NonEmptySeqsUpTo(Values(e), MaxCands) : Canonical(l)}

\* the keyword arguments of a set_grid call on heap[e]
GridKwargs(e) ==
    {d \in SeqsUpTo([key : ParamNames, val : CandLists(e)], Cardinality(ParamNames)) :
        \A i, j \in DOMAIN d : i # j => d[i].key # d[j].key}

\* the lists of Conjunctions assigned to _param_grid directly
GridLists == SeqsUpTo({<<>>, <<[key |-> Str_k, val |-> <<IntV(1)>>]>>}, MaxConj)

RECURSIVE SumLens(_)
SumLens(d) == IF d = <<>> THEN 0 ELSE Len(Head(d).val) + SumLens(Tail(d))
RECURSIVE SumCells(_)
SumCells(cs) == IF cs = <<>> THEN 0 ELSE SumLens(Head(cs)) + SumCells(Tail(cs))

\* the weight of an annotation: its number of candidates, and at least one
Weight(g) ==
    IF g.form = "absent" THEN 0
    ELSE IF SumCells(g.cs) = 0 THEN 1 ELSE SumCells(g.cs)

RECURSIVE HeapWeight(_)
HeapWeight(h) == IF h = <<>> THEN 0 ELSE Weight(Head(h).grid) + HeapWeight(Tail(h))

InitGrid ==
    /\ heap = <<>>
    /\ args = [op |-> "program"]
    /\ ret = NoCall

\* an estimator is constructed; its parameter x holds None or an estimator
NewEstimator ==
    /\ ret = NoCall
    /\ Len(heap) < MaxObjs
    /\ \E x \in {NoneV} \cup {ObjV(j) : j \in DOMAIN heap} :
         heap' = Append(heap, [params |-> <<[key |-> Str_x, val |-> x],
                                            [key |-> Str_k, val |-> IntV(1)]>>,
                               grid |-> Absent])
    /\ UNCHANGED <<args, ret>>

\* set_grid(estimator, **grid) on the estimator constructed last
set_grid ==
    /\ ret = NoCall
    /\ heap # <<>>
    /\ LET e == Len(heap)
       IN /\ heap[e].grid = Absent
          /\ \E d \in GridKwargs(e) :
               /\ HeapWeight(heap) + Weight(MappingGrid(d)) <= MaxCells
               /\ heap' = [heap EXCEPT ![e].grid = MappingGrid(d)]
    /\ UNCHANGED <<args, ret>>

\* estimator._param_grid = [...]: the list form that _build_param_grid reads
AssignParamGrid ==
    /\ ret = NoCall
    /\ heap # <<>>
    /\ LET e == Len(heap)
       IN /\ heap[e].grid = Absent
          /\ \E cs \in GridLists :
               /\ HeapWeight(heap) + Weight(ListGrid(cs)) <= MaxCells
               /\ heap' = [heap EXCEPT ![e].grid = ListGrid(cs)]
    /\ UNCHANGED <<args, ret>>

\* build_param_grid(estimator) on the estimator constructed last
CallBuildParamGrid ==
    /\ ret = NoCall
    /\ heap # <<>>
    /\ LET v == ObjV(Len(heap))
       IN ret' = [op |-> "build_param_grid", estimator |-> v,
                  out |-> BuildOut(heap, v),
                  built |-> _build_param_grid(heap, v),
                  grid |-> build_param_grid(heap, v)]
    /\ UNCHANGED <<heap, args>>

\* the roots handed to make_grid_search
Roots ==
    {ScalarRoot(v) : v \in {NoneV, IntV(1), FitOnlyV, ParamsOnlyV}
                            \cup {ObjV(j) : j \in {Len(heap)} \ {0}}}
    \cup {ListRoot(l) : l \in SeqsUpTo({IntV(1)} \cup {ObjV(j) : j \in {Len(heap)} \ {0}},
                                       MaxCands)}

CallMakeGridSearch ==
    /\ ret = NoCall
    /\ \E root \in Roots :
         LET r == make_grid_search(heap, root)
         IN /\ ret' = [op |-> "make_grid_search", root |-> root, err |-> r.err,
                       trace |-> r.trace, estimator |-> r.estimator,
                       param_grid |-> r.param_grid]
            /\ heap' = r.heap
    /\ UNCHANGED args

Next ==
    \/ NewEstimator
    \/ set_grid
    \/ AssignParamGrid
    \/ CallBuildParamGrid
    \/ CallMakeGridSearch

Spec == InitGrid /\ [][Next]_vars

----------------------------------------------------------------------------
(* Properties of the grid builder and of make_grid_search, under Spec.     *)

\* the estimator a build_param_grid call was made on, and its parameter x
BuiltObj == heap[ret.estimator.n]
ParamX(o) == DictGet(o.params, Str_x)

\* the built grid of a candidate; None for a value without get_params
CandGrid(c) == IF HasGetParams(c) THEN _build_param_grid(heap, c) ELSE Nothing
HasOwnGrid(c) == CandGrid(c).some /\ CandGrid(c).v # <<>>

StartsWith(key, pre) == Len(key) >= Len(pre) /\ SubSeq(key, 1, Len(pre)) = pre
\* the keys of Conjunction o below parameter p
SubKeys(o, p) == {k \in Keys(o) : StartsWith(k, p \o Dunder)}
\* o holds under p__ exactly the entries of g
HoldsSubGrid(o, p, g) ==
    /\ SubKeys(o, p) = {p \o Dunder \o k : k \in Keys(g)}
    /\ \A k \in Keys(g) : DictGet(o, p \o Dunder \o k) = DictGet(g, k)

\* the candidates of cands that have no grid of their own, in order
Fallback(cands) == SelectSeq(cands, LAMBDA c : ~HasOwnGrid(c))

\* the claim of C1 for parameter p with candidates cands in the output out
Isolated(out, p, cands) ==
    /\ \A n \in DOMAIN out :
         /\ DictHas(out[n], p)
         /\ \/ \E i \in DOMAIN cands :
                 /\ HasOwnGrid(cands[i])
                 /\ DictGet(out[n], p) = <<cands[i]>>
                 /\ \E j \in DOMAIN CandGrid(cands[i]).v :
                      HoldsSubGrid(out[n], p, CandGrid(cands[i]).v[j])
            \/ /\ Fallback(cands) # <<>>
               /\ DictGet(out[n], p) = Fallback(cands)
               /\ SubKeys(out[n], p) = {}
    /\ \A i \in DOMAIN cands :
         HasOwnGrid(cands[i]) =>
            \A j \in DOMAIN CandGrid(cands[i]).v :
               \E n \in DOMAIN out :
                  /\ DictHas(out[n], p)
                  /\ DictGet(out[n], p) = <<cands[i]>>
                  /\ HoldsSubGrid(out[n], p, CandGrid(cands[i]).v[j])
    /\ Fallback(cands) # <<>> =>
         \E n \in DOMAIN out :
            /\ DictHas(out[n], p)
            /\ DictGet(out[n], p) = Fallback(cands)
            /\ SubKeys(out[n], p) = {}

\* C1: in the grid built for an estimator annotated (set_grid) with
\* candidates for a parameter p, every candidate that has a non-empty built
\* grid of its own yields the disjuncts p = [candidate] with exactly the keys
\* of its grid under p__, the other candidates are collected in order into
\* one disjunct p = [those candidates] without any p__ key, and no disjunct
\* pairs a candidate with the keys of another one's grid.
C1_PerCandidateIsolation ==
    (ret.op = "build_param_grid" /\ BuiltObj.grid.form = "mapping") =>
        \A e \in DOMAIN BuiltObj.grid.cs[1] :
            Isolated(ret.out, BuiltObj.grid.cs[1][e].key, BuiltObj.grid.cs[1][e].val)

\* C1 when no estimator has a built grid that is the empty list
C1_IsolationWhenNoEmptyList ==
    (/\ ret.op = "build_param_grid"
     /\ BuiltObj.grid.form = "mapping"
     /\ \A i \in DOMAIN heap : CandGrid(ObjV(i)) # Some(<<>>)) =>
        \A e \in DOMAIN BuiltObj.grid.cs[1] :
            Isolated(ret.out, BuiltObj.grid.cs[1][e].key, BuiltObj.grid.cs[1][e].val)

\* the inner estimator of a two-level nesting: it is annotated with one
\* Conjunction of plain candidates and holds no estimator itself
PlainInner(v) ==
    /\ v.k = "obj"
    /\ heap[v.n].grid.form = "mapping"
    /\ ~HasGetParams(ParamX(heap[v.n]))
    /\ \A e \in DOMAIN heap[v.n].grid.cs[1] :
         \A i \in DOMAIN heap[v.n].grid.cs[1][e].val :
            heap[v.n].grid.cs[1][e].val[i].k = "int"

\* C4: for an unannotated estimator whose parameter x holds an estimator
\* annotated with one Conjunction of plain candidates, build_param_grid
\* returns that Conjunction with every key k renamed to x__k and every
\* candidate list as it was.
C4_NamespacingRoundtrip ==
    (/\ ret.op = "build_param_grid"
     /\ BuiltObj.grid = Absent
     /\ PlainInner(ParamX(BuiltObj))) =>
        LET inner == heap[ParamX(BuiltObj).n].grid.cs[1]
        IN /\ ret.grid.form = "mapping"
           /\ Keys(ret.grid.cs[1]) = {Str_x \o Dunder \o k : k \in Keys(inner)}
           /\ \A k \in Keys(inner) :
                DictGet(ret.grid.cs[1], Str_x \o Dunder \o k) = DictGet(inner, k)

\* the inner Conjunction has two keys, one of them with the candidates [1, 2]
C4_Witness ==
    /\ ret.op = "build_param_grid"
    /\ BuiltObj.grid = Absent
    /\ PlainInner(ParamX(BuiltObj))
    /\ Len(heap[ParamX(BuiltObj).n].grid.cs[1]) = 2
    /\ \E e \in DOMAIN heap[ParamX(BuiltObj).n].grid.cs[1] :
         heap[ParamX(BuiltObj).n].grid.cs[1][e].val = <<IntV(1), IntV(2)>>
    /\ Len(ret.grid.cs[1]) = 2

\* C5: for an estimator that holds no estimator, an annotation that is
\* absent, has no Conjunction or has only empty Conjunctions makes
\* _build_param_grid return None and build_param_grid return {}.
C5_EmptyAnnotationCollapses ==
    (/\ ret.op = "build_param_grid"
     /\ ~HasGetParams(ParamX(BuiltObj))
     /\ \A i \in DOMAIN BuiltObj.grid.cs : BuiltObj.grid.cs[i] = <<>>) =>
        /\ ~ret.built.some
        /\ ret.grid = MappingGrid(<<>>)

\* C6: build_param_grid returns {} when the builder's out is one Conjunction
\* without keys, that Conjunction itself when out is one Conjunction with
\* keys, and out as it is when it holds more than one.
C6_FlatteningRule ==
    ret.op = "build_param_grid" =>
        /\ (Len(ret.out) = 1 /\ ret.out[1] = <<>>) => ret.grid = MappingGrid(<<>>)
        /\ (Len(ret.out) = 1 /\ ret.out[1] # <<>>) => ret.grid = MappingGrid(ret.out[1])
        /\ Len(ret.out) > 1 => ret.grid = ListGrid(ret.out)

\* a grid of one Conjunction with keys was flattened
C6_Witness ==
    /\ ret.op = "build_param_grid"
    /\ Len(ret.out) = 1
    /\ ret.out[1] # <<>>
    /\ ret.grid = MappingGrid(ret.out[1])

\* C7: make_grid_search raises the invalid-configuration error exactly when
\* the root is not a list and has no fit, and then before a grid is built;
\* for a list or an object with fit it raises nothing, a list being wrapped
\* into an estimator whose parameter root holds the first alternative and
\* whose annotation is {root: the list}.
C7_OnlyInvalidConfiguration ==
    ret.op = "make_grid_search" =>
        /\ ret.err = "ValueError" <=> (~ret.root.islist /\ ~HasFit(ret.root.v))
        /\ ret.err = "ValueError" => ret.trace = <<"_check_estimator">>
        /\ (ret.root.islist \/ HasFit(ret.root.v)) => ret.err = "none"
        /\ (ret.root.islist /\ ret.err = "none") =>
              /\ ret.estimator = ObjV(Len(heap))
              /\ DictGet(heap[Len(heap)].params, Str_root) = ret.root.items[1]
              /\ heap[Len(heap)].grid =
                    MappingGrid(<<[key |-> Str_root, val |-> ret.root.items]>>)

\* build's result with every key renamed to prefix + key
PrefixedGrid(prefix, g) ==
    IF g.some THEN Some([i \in DOMAIN g.v |-> PrefixKeys(prefix, g.v[i])]) ELSE Nothing

OptListEq(a, b) == a.some = b.some /\ ListEq(a.v, b.v)

\* C9: for an unannotated estimator whose parameter x holds an estimator N,
\* _build_param_grid returns _build_param_grid(N) with every key prefixed by
\* x__, disjunct for disjunct, and None when N has no grid.
C9_NestingCompositional ==
    (/\ ret.op = "build_param_grid"
     /\ BuiltObj.grid = Absent
     /\ HasGetParams(ParamX(BuiltObj))) =>
        OptListEq(ret.built,
                  PrefixedGrid(Str_x \o Dunder, _build_param_grid(heap, ParamX(BuiltObj))))

----------------------------------------------------------------------------
(* The merger on its own: the operands are drawn at the start, the call    *)
(* runs on a memory holding dest's dicts first and src's dicts after them. *)

\* the ordered dicts with keys among K, every value being val
DictsOver(K, val) ==
    {d \in SeqsUpTo([key : K, val : {val}], Cardinality(K)) :
        \A i, j \in DOMAIN d : i # j => d[i].key # d[j].key}

MergeDests == SeqsUpTo(DictsOver({Str_x, Str_x \o Dunder \o Str_k}, <<IntV(1)>>), MaxConj)
MergeSrcs == SeqsUpTo(DictsOver({Str_x, Str_k}, <<IntV(2)>>), MaxConj)
MergePrefixes == {Nothing, Some(<<>>), Some(Str_x \o Dunder)}

MergeArgs ==
    [op : {"_update_grid"}, dest : MergeDests,
     src : {Nothing} \cup {Some(s) : s \in MergeSrcs}, prefix : MergePrefixes]

InitMerge ==
    /\ heap = <<>>
    /\ args \in MergeArgs
    /\ ret = NoCall

\* the memory before the call and the two operand lists
MergeMem == args.dest \o (IF args.src.some THEN args.src.v ELSE <<>>)
MergeDestAddrs == [i \in DOMAIN args.dest |-> i]
MergeSrcAddrs ==
    IF args.src.some
    THEN Some([j \in DOMAIN args.src.v |-> Len(args.dest) + j])
    ELSE Nothing

CallUpdateGrid ==
    /\ args.op = "_update_grid"
    /\ ret = NoCall
    /\ LET r == UpdateGridRun(MergeMem, MergeDestAddrs, MergeSrcAddrs, args.prefix)
       IN ret' = [op |-> "_update_grid", mem |-> r.mem, out |-> r.out]
    /\ UNCHANGED <<heap, args>>

NextMerge == CallUpdateGrid

SpecMerge == InitMerge /\ [][NextMerge]_vars

\* what the merger is to rename the keys of src with
EffPrefix == IF args.prefix.some THEN args.prefix.v ELSE <<>>

\* C8: _update_grid(D, S, prefix) with S not None returns |D| * |S| dicts,
\* dest-major and src-minor, the one at position (i-1)*|S|+j being D[i]
\* overlaid with S[j] under the keys prefix + k (S wins a collision, no key of
\* D is renamed); with S None it returns the list D itself; with D empty it
\* returns []; and no dict of D or S is changed by the call.
C8_MergeCrossProduct ==
    ret.op = "_update_grid" =>
        /\ \A a \in DOMAIN MergeMem : ret.mem[a] = MergeMem[a]
        /\ ~args.src.some => ret.out = MergeDestAddrs
        /\ args.src.some =>
            LET D == args.dest
                S == args.src.v
            IN /\ Len(ret.out) = Len(D) * Len(S)
               /\ D = <<>> => ret.out = <<>>
               /\ \A i \in DOMAIN D : \A j \in DOMAIN S :
                    LET o == ret.mem[ret.out[(i - 1) * Len(S) + j]]
                        sk == {EffPrefix \o k : k \in Keys(S[j])}
                    IN /\ Keys(o) = Keys(D[i]) \cup sk
                       /\ \A k \in Keys(S[j]) :
                            DictGet(o, EffPrefix \o k) = DictGet(S[j], k)
                       /\ \A k \in Keys(D[i]) \ sk : DictGet(o, k) = DictGet(D[i], k)

\* a 2 x 2 merge under the prefix 'x__' in which a renamed key of src
\* collides with a key of dest
C8_Witness ==
    /\ ret.op = "_update_grid"
    /\ args.src.some
    /\ Len(args.dest) = 2 /\ Len(args.src.v) = 2
    /\ args.prefix = Some(Str_x \o Dunder)
    /\ Len(ret.out) = 4
    /\ \E i \in DOMAIN args.dest :
         \E j \in DOMAIN args.src.v :
           \E k \in Keys(args.src.v[j]) : (Str_x \o Dunder \o k) \in Keys(args.dest[i])

----------------------------------------------------------------------------
(* The step namer.  A candidate is None, an estimator of some class, or a  *)
(* tuple of an estimator and a list of columns, in either order.  A slot   *)
(* is one candidate or a list of candidates.                               *)

Str_alt == <<"a", "l", "t">>
Str_NoneType == <<"N", "o", "n", "e", "T", "y", "p", "e">>
Str_list == <<"l", "i", "s", "t">>

NoneC == [kind |-> "none", cls |-> Str_NoneType, estfirst |-> FALSE]
EstC(cls) == [kind |-> "est", cls |-> cls, estfirst |-> FALSE]
TupleC(cls, estfirst) == [kind |-> "tuple", cls |-> cls, estfirst |-> estfirst]

LowerChar(c) ==
    CASE c = "A" -> "a" [] c = "B" -> "b" [] c = "N" -> "n" [] c = "T" -> "t"
      [] OTHER -> c

\* s.lower()
Lower(str) == [i \in DOMAIN str |-> LowerChar(str[i])]

RECURSIVE Decimal(_)
\* "%d" % n, for n >= 0
Decimal(n) ==
    LET digit == <<"0", "1", "2", "3", "4", "5", "6", "7", "8", "9">>[(n % 10) + 1]
    IN IF n < 10 THEN <<digit>> ELSE Append(Decimal(n \div 10), digit)

\* the types of the entries of a tuple candidate, in order
TupleTypes(c) == IF c.estfirst THEN <<c.cls, Str_list>> ELSE <<Str_list, c.cls>>

\* type(estimator).__name__.lower(); for a tuple, the type that is left
\* once list is discarded from the set of its entries' types
_name_of_estimator(c) ==
    IF c.kind = "tuple"
    THEN LET tuple_types == {TupleTypes(c)[i] : i \in DOMAIN TupleTypes(c)} \ {Str_list}
         IN Lower(CHOOSE t \in tuple_types : TRUE)
    ELSE Lower(c.cls)

\* steps = [estimators if isinstance(estimators, list) else [estimators] ...]
Normalize(slots) == [i \in DOMAIN slots |-> slots[i].items]

\* estimators[:] with every None removed when there is more than one entry
NamedCandidates(estimators) ==
    IF Len(estimators) > 1
    THEN SelectSeq(estimators, LAMBDA c : c.kind # "none")
    ELSE estimators

\* the name appended for one step; Nothing when step_names.pop() finds the
\* set empty (KeyError)
StepName(estimators, default) ==
    LET kept == NamedCandidates(estimators)
        step_names == {_name_of_estimator(kept[i]) : i \in DOMAIN kept}
    IN IF Cardinality(step_names) > 1 THEN Some(default)
       ELSE IF step_names = {} THEN Nothing
       ELSE Some(CHOOSE n \in step_names : TRUE)

\* namecount once the names that occur once are deleted
NameCount(names) ==
    LET count(n) == Cardinality({i \in DOMAIN names : names[i] = n})
    IN [n \in {names[i] : i \in {j \in DOMAIN names : count(names[j]) > 1}} |-> count(n)]

RECURSIVE SuffixLoopForward(_, _, _, _)
\* the suffixing loop run over range(len(names)) instead of its reverse
SuffixLoopForward(names, namecount, i, done) ==
    IF i > Len(names) THEN done
    ELSE IF names[i] \in DOMAIN namecount
    THEN SuffixLoopForward(names, [namecount EXCEPT ![names[i]] = @ - 1], i + 1,
                           done \o <<names[i] \o <<"-">> \o Decimal(namecount[names[i]])>>)
    ELSE SuffixLoopForward(names, namecount, i + 1, done \o <<names[i]>>)

RECURSIVE SuffixLoop(_, _, _, _)
\* for i in reversed(range(len(names))): a counted name gets "-%d" % count
\* and its count goes down by one.  done holds names[i+1:] as rewritten.
SuffixLoop(names, namecount, i, done) ==
    IF i = 0 THEN done
    ELSE IF names[i] \in DOMAIN namecount
    THEN SuffixLoop(names, [namecount EXCEPT ![names[i]] = @ - 1], i - 1,
                    <<names[i] \o <<"-">> \o Decimal(namecount[names[i]])>> \o done)
    ELSE SuffixLoop(names, namecount, i - 1, <<names[i]>> \o done)

\* the suffixing started at the first position
SuffixNamesForward(names) == SuffixLoopForward(names, NameCount(names), 1, <<>>)

\* the suffixing started at the last position
SuffixNames(names) == SuffixLoop(names, NameCount(names), Len(names), <<>>)

RECURSIVE GridOfSteps(_, _, _)
\* {k: v for k, v in zip(names, steps) if len(v) > 1}
GridOfSteps(names, steps, d) ==
    IF names = <<>> \/ steps = <<>> THEN d
    ELSE GridOfSteps(Tail(names), Tail(steps),
                     IF Len(Head(steps)) > 1 THEN DictSet(d, Head(names), Head(steps))
                     ELSE d)

\* the representative of a step with the last candidate taken for the first
RepresentativeLast(step) == step[Len(step)]

\* step[0]
Representative(step) == step[1]

\* _name_steps(steps, default): the exception raised ("none": it returned),
\* the (name, estimator) pairs and the grid
_name_steps(slots, default) ==
    LET steps == Normalize(slots)
        base == [i \in DOMAIN steps |-> StepName(steps[i], default)]
    IN IF \E i \in DOMAIN base : ~base[i].some
       THEN [err |-> "KeyError", named_steps |-> <<>>, grid |-> <<>>]
       ELSE LET names == SuffixNames([i \in DOMAIN base |-> base[i].v])
            IN [err |-> "none",
                named_steps |-> [i \in DOMAIN steps |->
                                   [name |-> names[i], est |-> Representative(steps[i])]],
                grid |-> GridOfSteps(names, steps, <<>>)]

\* steps, grid = _name_steps(steps); set_grid(cls(steps, **kwargs), **grid)
MakeComposite(cls, slots) ==
    LET r == _name_steps(slots, Str_alt)
    IN IF r.err # "none"
       THEN [op |-> cls, err |-> r.err, named_steps |-> <<>>, grid |-> Absent]
       ELSE [op |-> cls, err |-> "none", named_steps |-> r.named_steps,
             grid |-> MappingGrid(r.grid)]

Candidates == {NoneC, EstC(<<"A", "b">>), TupleC(<<"A", "l", "t">>, FALSE)}

SlotForms ==
    {[islist |-> FALSE, items |-> <<c>>] : c \in Candidates}
    \cup {[islist |-> TRUE, items |-> l] : l \in NonEmptySeqsUpTo(Candidates, MaxAlts)}

RECURSIVE SlotCells(_)
SlotCells(slots) == IF slots = <<>> THEN 0 ELSE Len(Head(slots).items) + SlotCells(Tail(slots))

InitNamer ==
    /\ heap = <<>>
    /\ args = [op |-> "name_steps", steps |-> <<>>]
    /\ ret = NoCall

\* the caller lists one more slot
AddSlot ==
    /\ args.op = "name_steps" /\ ret = NoCall
    /\ Len(args.steps) < MaxSlots
    /\ \E slot \in SlotForms :
         /\ SlotCells(args.steps) + Len(slot.items) <= MaxNames
         /\ args' = [args EXCEPT !.steps = Append(@, slot)]
    /\ UNCHANGED <<heap, ret>>

make_pipeline ==
    /\ args.op = "name_steps" /\ ret = NoCall
    /\ ret' = MakeComposite("Pipeline", args.steps)
    /\ UNCHANGED <<heap, args>>

make_union ==
    /\ args.op = "name_steps" /\ ret = NoCall
    /\ ret' = MakeComposite("FeatureUnion", args.steps)
    /\ UNCHANGED <<heap, args>>

make_column_transformer ==
    /\ args.op = "name_steps" /\ ret = NoCall
    /\ ret' = MakeComposite("ColumnTransformer", args.steps)
    /\ UNCHANGED <<heap, args>>

NextNamer == AddSlot \/ make_pipeline \/ make_union \/ make_column_transformer

SpecNamer == InitNamer /\ [][NextNamer]_vars

----------------------------------------------------------------------------
(* Properties of the step namer, under SpecNamer.                          *)

NamerOps == {"Pipeline", "FeatureUnion", "ColumnTransformer"}

\* the type identifiers of a slot: those of its candidates other than None,
\* or that of None when None is its only candidate
SlotIds(items) ==
    IF Len(items) = 1
    THEN {_name_of_estimator(items[1])}
    ELSE {_name_of_estimator(items[j]) :
             j \in {n \in DOMAIN items : items[n].kind # "none"}}

BaseName(items) ==
    IF Cardinality(SlotIds(items)) > 1 THEN Str_alt
    ELSE CHOOSE n \in SlotIds(items) : TRUE

\* the slots that share the base name of slot i
Occurrences(i) ==
    {j \in DOMAIN args.steps :
        BaseName(args.steps[j].items) = BaseName(args.steps[i].items)}

FinalName(i) ==
    IF Cardinality(Occurrences(i)) > 1
    THEN BaseName(args.steps[i].items) \o <<"-">>
            \o Decimal(Cardinality({j \in Occurrences(i) : j <= i}))
    ELSE BaseName(args.steps[i].items)

\* C2: when _name_steps returns, a slot whose candidates other than None
\* have more than one type identifier has the base name alt and any other
\* slot its one type identifier; a base name shared by several slots gets
\* -1, -2, ... in slot order, a base name of one slot stays as it is, and no
\* two final names are equal.
C2_StepNaming ==
    (ret.op \in NamerOps /\ ret.err = "none") =>
        /\ Len(ret.named_steps) = Len(args.steps)
        /\ \A i \in DOMAIN args.steps : ret.named_steps[i].name = FinalName(i)
        /\ \A i, j \in DOMAIN ret.named_steps :
              i # j => ret.named_steps[i].name # ret.named_steps[j].name

\* two slots share a base name, the first of them through alt, and a third
\* slot keeps its base name
C2_Witness ==
    /\ ret.op \in NamerOps
    /\ ret.err = "none"
    /\ \E i, j, n \in DOMAIN args.steps :
         /\ i < j
         /\ Cardinality(SlotIds(args.steps[i].items)) > 1
         /\ ret.named_steps[i].name = Str_alt \o <<"-", "1">>
         /\ ret.named_steps[j].name = Str_alt \o <<"-", "2">>
         /\ ret.named_steps[n].name = BaseName(args.steps[n].items)

\* the slots with more than one candidate
MultiSlots == {i \in DOMAIN args.steps : Len(args.steps[i].items) > 1}

\* C3: when _name_steps returns, its i-th pair is the final name of slot i
\* with the first candidate of slot i, None included, and the annotation
\* holds one entry per slot of more than one candidate, from the slot's
\* final name to all its candidates in order, and none for any other slot.
C3_NamerOutputs ==
    (ret.op \in NamerOps /\ ret.err = "none") =>
        /\ Len(ret.named_steps) = Len(args.steps)
        /\ \A i \in DOMAIN args.steps :
              /\ ret.named_steps[i].name = FinalName(i)
              /\ ret.named_steps[i].est = args.steps[i].items[1]
        /\ ret.grid.form = "mapping"
        /\ Len(ret.grid.cs[1]) = Cardinality(MultiSlots)
        /\ \A i \in DOMAIN args.steps :
              IF i \in MultiSlots
              THEN /\ DictHas(ret.grid.cs[1], ret.named_steps[i].name)
                   /\ DictGet(ret.grid.cs[1], ret.named_steps[i].name)
                         = args.steps[i].items
              ELSE ~DictHas(ret.grid.cs[1], ret.named_steps[i].name)

\* a slot of two candidates starting with None is represented by None and
\* has its entry, next to a slot of one candidate that has none
C3_Witness ==
    /\ ret.op \in NamerOps
    /\ ret.err = "none"
    /\ \E i, j \in DOMAIN args.steps :
         /\ Len(args.steps[i].items) = 2
         /\ args.steps[i].items[1] = NoneC
         /\ ret.named_steps[i].est = NoneC
         /\ DictGet(ret.grid.cs[1], ret.named_steps[i].name)[1] = NoneC
         /\ Len(args.steps[j].items) = 1
         /\ Len(ret.grid.cs[1]) = 1

\* C10: for every list of slots, each one candidate or a non-empty list of
\* candidates, _name_steps raises nothing and returns one pair per slot.
C10_StepNamingTotal ==
    ret.op \in NamerOps =>
        /\ ret.err = "none"
        /\ Len(ret.named_steps) = Len(args.steps)

====
